---- MODULE Spec2Model ----
(***************************************************************************)
(* State-machine model of TibetanOCR (Lib/Modules.py, Lib/Utils.py,        *)
(* Lib/Exporter.py): the line detector, the inference pipeline, the        *)
(* dataset split and the training batch loader.                            *)
(***************************************************************************)
EXTENDS Integers, Sequences, FiniteSets, TLC

(***************************************************************************)
(* Bounds of the model.                                                    *)
(***************************************************************************)
MaxContours == 2      \* contours found in one predicted mask
MaxPages == 2         \* page images in the input directory
MaxRuns == 2          \* InferencePipeline.run calls on one pipeline object
MaxCalls == 3         \* LineDetector.run calls on one detector object
MaxFormats == 2       \* entries of the output_formats list of one run call
MaxSamples == 8       \* samples of a dataset
MaxBatch == 3         \* batch size of a dataset
RatioBits == 3        \* train_test_split is a multiple of 2^-RatioBits
MaxLoaderSamples == 2 \* samples handed to a data loader
MaxLoaderBatch == 3   \* batch size of a data loader
MaxLabelLen == 1      \* length of the short labels
MaxTextLen == 3       \* length of the short texts handed to a vectorizer
MaxSteps == 3         \* timesteps of a probability matrix
MaxImages == 3        \* canvases of a manifest

(***************************************************************************)
(* Program constants.                                                      *)
(***************************************************************************)
AreaThreshold == 2000
sequence_length == 500      \* TextVectorizer.sequence_length
padding_token == 0          \* TextVectorizer.padding_token
max_output_length == 500    \* OCRDataLoader._max_output_length

None == [none |-> TRUE]

VARIABLES
    \* ---- LineDetector object (Modules.py 286-408)
    onnx_model_file,    \* "None", "missing" (load fails) or "model" (loads)
    line_session,       \* None or the loaded session
    can_run,            \* LineDetector.can_run
    det_calls,          \* number of direct run calls made on the detector
    det_mask,           \* contours of the mask of the last run call
    det_result,         \* what the last run call handed to its caller
    \* ---- logging
    errors,             \* the logging.error records, oldest first
    \* ---- InferencePipeline object (Modules.py 481-602)
    line_model_path,    \* "" or a path
    ocr_model_weights,  \* "" or a path
    line_detector,      \* "None" or "LineDetector" (the object above)
    ocr_model,          \* "None" or "OCRInference"
    p_can_run,          \* InferencePipeline._can_run
    exporters,          \* InferencePipeline.exporters, in registration order
    \* ---- file system
    image_files,        \* the *.jpg page images of the directory of the run
    out_dirs,           \* names of the output directories created so far
    \* ---- the run call in progress
    pc,                 \* position in InferencePipeline.run
    runs,               \* number of run calls started
    args,               \* arguments of the current run call
    images,             \* the sorted page list of the current run call
    idx,                \* loop index of the page being processed (1-based)
    predicted_text_lines, \* decoded texts of the current page
    trace,              \* calls made by the current run call, in order
    \* ---- OCRDataset object (Modules.py 23-181)
    ds_images,          \* OCRDataset._ds_images, the shuffled sample list
    batch_size,         \* OCRDataset._batch_size
    train_test_split,   \* OCRDataset._train_test_split, in units of 2^-RatioBits
    train_idx,          \* OCRDataset._train_idx
    val_idx,            \* OCRDataset._val_idx
    test_idx,           \* OCRDataset._test_idx
    ds_pc,              \* "new", or "split" once _create_sets has run
    \* ---- OCRDataLoader object (Modules.py 184-231)
    dl_labels,          \* the label of each sample, as LabelReader reads it
    dl_batch_size,      \* OCRDataLoader._batch_size
    dl_charset,         \* OCRDataLoader._charset[0]
    dl_idx,             \* index of the last batch asked for
    dl_result,          \* what the last __getitem__ call handed back
    \* ---- TextVectorizer object (Utils.py 63-88)
    vz_charset,         \* TextVectorizer.charset
    vz_pad_sequences,   \* TextVectorizer.pad_sequences
    vz_item,            \* the text of the last __call__
    vz_result,          \* what the last __call__ handed back
    \* ---- OCRInference._decode_prediction (Modules.py 435-451)
    ctc_prediction,     \* the probability matrix of the last call
    ctc_out,            \* the index sequence left after np.delete
    ctc_decoded,        \* the text handed back
    ctc_prev,           \* the index sequence of the call before
    ctc_calls,          \* number of calls made
    \* ---- IIIFDownloader.download (Utils.py 102-132)
    iiif_canvases,      \* image name of each canvas of the manifest
    iiif_limit,         \* the file_limit argument
    iiif_disk0,         \* names of the files on disk before the call
    iiif_disk,          \* names of the files on disk
    iiif_pc,            \* position in download
    iiif_idx,           \* loop index (0-based)
    iiif_file_limit,    \* the local file_limit after line 120
    iiif_requests       \* the requests.get calls made, in order

detVars == <<onnx_model_file, line_session, can_run, det_calls, det_mask,
             det_result>>

pipeVars == <<line_model_path, ocr_model_weights, line_detector, ocr_model,
              p_can_run, exporters, image_files, out_dirs, pc, runs, args,
              images, idx, predicted_text_lines, trace>>

dsVars == <<ds_images, batch_size, train_test_split, train_idx, val_idx,
            test_idx, ds_pc>>

dlVars == <<dl_labels, dl_batch_size, dl_charset, dl_idx, dl_result>>

vzVars == <<vz_charset, vz_pad_sequences, vz_item, vz_result>>

ctcVars == <<ctc_prediction, ctc_out, ctc_decoded, ctc_prev, ctc_calls>>

iiifVars == <<iiif_canvases, iiif_limit, iiif_disk0, iiif_disk, iiif_pc,
              iiif_idx, iiif_file_limit, iiif_requests>>

vars == <<detVars, errors, pipeVars, dsVars, dlVars, vzVars, ctcVars, iiifVars>>

\* the objects a specification does not use
DsIdle ==
    /\ ds_images = <<>>
    /\ batch_size = 1
    /\ train_test_split = 0
    /\ train_idx = <<>>
    /\ val_idx = <<>>
    /\ test_idx = <<>>
    /\ ds_pc = "new"

NoBatch == [outcome |-> "new", the_input |-> <<>>, the_labels |-> <<>>,
            input_length |-> <<>>, label_length |-> <<>>]

DlIdle ==
    /\ dl_labels = <<>>
    /\ dl_batch_size = 1
    /\ dl_charset = <<>>
    /\ dl_idx = 0
    /\ dl_result = NoBatch

NoVector == [outcome |-> "new", vec |-> <<>>]

VzIdle ==
    /\ vz_charset = <<>>
    /\ vz_pad_sequences = TRUE
    /\ vz_item = <<>>
    /\ vz_result = NoVector

CtcIdle ==
    /\ ctc_prediction = <<>>
    /\ ctc_out = <<>>
    /\ ctc_decoded = <<>>
    /\ ctc_prev = <<>>
    /\ ctc_calls = 0

IiifIdle ==
    /\ iiif_canvases = <<>>
    /\ iiif_limit = 0
    /\ iiif_disk0 = {}
    /\ iiif_disk = {}
    /\ iiif_pc = "idle"
    /\ iiif_idx = 0
    /\ iiif_file_limit = 0
    /\ iiif_requests = <<>>

(***************************************************************************)
(* Contours of a predicted mask.  A contour is known by its position in    *)
(* the list cv2.findContours returns (id), its area and the y and h of     *)
(* its bounding rectangle.                                                 *)
(***************************************************************************)
ContourShapes ==
    [area : {AreaThreshold, AreaThreshold + 1}, y : {0, 1}, h : {1, 2}]

Masks ==
    UNION { { [i \in 1..n |-> [id |-> i, area |-> s[i].area, y |-> s[i].y,
                               h |-> s[i].h]] : s \in [1..n -> ContourShapes] }
            : n \in 0..MaxContours }

\* center_point[1] = int(y + h / 2)
CenterY(c) == (2 * c.y + c.h) \div 2

\* variant: a contour of area 2000 is kept
AreaFilterGeq(contours) == SelectSeq(contours, LAMBDA c : c.area >= AreaThreshold)

\* contours = [x for x in contours if cv2.contourArea(x) > 2000]
AreaFilter(contours) == SelectSeq(contours, LAMBDA c : c.area > AreaThreshold)

\* contour_dict[center_point[1]] = contour, for each contour in list order:
\* a later contour with the same key replaces the earlier one.
RECURSIVE ContourDict(_, _)
ContourDict(contours, d) ==
    IF contours = <<>> THEN d
    ELSE LET c == Head(contours)
             k == CenterY(c)
             d2 == [x \in (DOMAIN d) \cup {k} |-> IF x = k THEN c ELSE d[x]]
         IN ContourDict(Tail(contours), d2)

\* variant: sorted(contour_dict, reverse=True)
RECURSIVE SortedKeysDescending(_)
SortedKeysDescending(S) ==
    IF S = {} THEN <<>>
    ELSE LET m == CHOOSE x \in S : \A z \in S : x >= z
         IN <<m>> \o SortedKeysDescending(S \ {m})

\* sorted(contour_dict): the keys in ascending order
RECURSIVE SortedKeys(_)
SortedKeys(S) ==
    IF S = {} THEN <<>>
    ELSE LET m == CHOOSE x \in S : \A z \in S : x <= z
         IN <<m>> \o SortedKeys(S \ {m})

\* LineDetector._get_page_contours: the line boxes of a mask
GetPageContours(mask) ==
    LET contours == AreaFilter(mask)
        contour_dict == ContourDict(contours, <<>>)
        keys == SortedKeys(DOMAIN contour_dict)
    IN [i \in 1..Len(keys) |-> contour_dict[keys[i]]]

\* variant: the loop starts at the second box, range(1, len(line_boxes))
GetLineImagesSkipFirst(line_boxes) ==
    [i \in 1..(Len(line_boxes) - 1) |-> [crop |-> line_boxes[i + 1].id]]

\* LineDetector._get_line_images: one cropped image per line box, in order
GetLineImages(line_boxes) ==
    [i \in 1..Len(line_boxes) |-> [crop |-> line_boxes[i].id]]

\* LineDetector._init: the session, can_run and the errors logged for a
\* model file ("model" loads, any other path makes InferenceSession raise)
DetectorInit(file) ==
    IF file # "None"
    THEN IF file = "model"
         THEN [line_session |-> [session |-> file], can_run |-> TRUE,
               errors |-> <<>>]
         ELSE [line_session |-> None, can_run |-> FALSE,
               errors |-> <<"Error loading model file">>]
    ELSE [line_session |-> None, can_run |-> FALSE, errors |-> <<>>]

NoResult == [outcome |-> "new", line_images |-> <<>>, line_boxes |-> <<>>]

\* LineDetector.run on a detector with the given can_run: the value handed
\* to the caller and the logging.error records written.
DetectorRun(canrun, mask) ==
    IF canrun
    THEN LET line_boxes == GetPageContours(mask)
         IN [ret |-> [outcome |-> "tuple",
                      line_images |-> GetLineImages(line_boxes),
                      line_boxes |-> line_boxes],
             errors |-> <<>>]
    ELSE [ret |-> [outcome |-> "None", line_images |-> <<>>,
                   line_boxes |-> <<>>],
          errors |-> <<"Error: Line Detector not properly initialzed.">>]

(***************************************************************************)
(* The sequence decoder and the text codec, as the pipeline uses them.     *)
(* A text is known by the line crop it was decoded from (of), its encoding *)
(* (enc) and its Python type (kind).                                       *)
(***************************************************************************)
Raise == [kind |-> "raise", enc |-> "", of |-> 0]

\* OCRInference.run returns the tuple (results, prediction)
OcrRun(line) == [kind |-> "tuple", enc |-> "wylie", of |-> line.crop]

\* OCRInference.run_batched returns one decoded string per line image
OcrRunBatched(lines) ==
    [i \in 1..Len(lines) |-> [kind |-> "str", enc |-> "wylie", of |-> lines[i].crop]]

\* pyewts.toUnicode: a string is converted; what it does with a value that
\* is not a string is not fixed by this repository (it raises, or hands
\* back some value).
ToUnicode(x) ==
    IF x.kind = "str"
    THEN {[kind |-> "str", enc |-> "unicode", of |-> x.of]}
    ELSE {Raise, [kind |-> "other", enc |-> "unicode", of |-> x.of]}

(***************************************************************************)
(* Exporters (Exporter.py).                                                *)
(***************************************************************************)
\* the directories an exporter's _init creates under image_dir
ExporterDirs(kind) ==
    CASE kind = "PageXML" -> {"page"}
      [] kind = "TextOutput" -> {"text"}
      [] kind = "ProdigyLines" -> {"prodigy_lines", "prodigy_lines/lines"}

\* export(...): TextOutput formats any value; PageXML and ProdigyLines
\* serialise the texts, which is only known to succeed for strings.
ExportOutcomes(kind, text_lines) ==
    IF kind = "TextOutput" \/ \A i \in DOMAIN text_lines : text_lines[i].kind = "str"
    THEN {"ok"}
    ELSE {"ok", "raise"}

(***************************************************************************)
(* InferencePipeline.                                                      *)
(***************************************************************************)
\* page images are named <n>.jpg; the first page of a directory is 10.jpg
PageName(i) == IF i = 1 THEN 10 ELSE i
\* the input directories: the first n pages, n = 0..MaxPages
Directories == {{PageName(i) : i \in 1..n} : n \in 0..MaxPages}

\* the masks the network answers with inside the pipeline: contour i has
\* the bounding rectangle y = 0, h = i
PageMasks == {m \in Masks : \A i \in DOMAIN m : m[i].y = 0 /\ m[i].h = i}

\* variant: sorted(glob(...)), the names compared as strings ("10" < "2")
LexKey(n) == IF n < 10 THEN 100 * n ELSE 10 * n + 1
LexSorted(files) ==
    LET keys == SortedKeys({LexKey(n) : n \in files})
    IN [i \in 1..Len(keys) |-> CHOOSE n \in files : LexKey(n) = keys[i]]

\* natsorted(glob(...)): ascending by the number in the name
NatSorted(files) == SortedKeys(files)

OutputFormats == {"xml", "text", "prodigy", "pdf"}
FormatLists == {f \in SUBSET OutputFormats : Cardinality(f) <= MaxFormats}
Modes == {"batched", "sequential"}
Encodings == {"unicode", "wylie"}

\* InferencePipeline._init (and __init__): the fields after construction
PipelineInit(line_path, weights) ==
    LET det == IF line_path # "" THEN DetectorInit(line_path)
               ELSE DetectorInit("None")
    IN [line_detector |-> IF line_path # "" THEN "LineDetector" ELSE "None",
        line_session |-> det.line_session,
        can_run |-> det.can_run,
        ocr_model |-> IF weights # "" THEN "OCRInference" ELSE "None",
        p_can_run |-> TRUE,
        errors |-> IF line_path # "" THEN det.errors ELSE <<>>]

\* lines 549-559: the exporters one run call appends, in this order
NewExporters(output_formats) ==
    (IF "xml" \in output_formats THEN <<"PageXML">> ELSE <<>>)
    \o (IF "text" \in output_formats THEN <<"TextOutput">> ELSE <<>>)
    \o (IF "prodigy" \in output_formats THEN <<"ProdigyLines">> ELSE <<>>)

\* self.exporters after lines 549-559 of a run call
ResolveExporters(old, output_formats) == old \o NewExporters(output_formats)

RECURSIVE DirsOf(_)
DirsOf(exps) ==
    IF exps = <<>> THEN {} ELSE ExporterDirs(Head(exps)) \cup DirsOf(Tail(exps))

Event(ev, page, k, who) == [ev |-> ev, page |-> page, k |-> k, who |-> who]

NoArgs == [output_formats |-> {}, mode |-> "batched",
           output_encoding |-> "unicode", write_control_image |-> FALSE]

PipeInit ==
    /\ line_model_path \in {"", "missing", "model"}
    /\ ocr_model_weights \in {"", "weights"}
    /\ onnx_model_file = IF line_model_path # "" THEN line_model_path ELSE "None"
    /\ LET o == PipelineInit(line_model_path, ocr_model_weights)
       IN /\ line_detector = o.line_detector
          /\ line_session = o.line_session
          /\ can_run = o.can_run
          /\ ocr_model = o.ocr_model
          /\ p_can_run = o.p_can_run
          /\ errors = o.errors
    /\ exporters = <<>>
    /\ image_files = {}
    /\ out_dirs = {}
    /\ pc = "idle"
    /\ runs = 0
    /\ args \in [output_formats : {{}}, mode : Modes,
                 output_encoding : Encodings, write_control_image : BOOLEAN]
    /\ images = <<>>
    /\ idx = 0
    /\ predicted_text_lines = <<>>
    /\ trace = <<>>
    /\ det_calls = 0
    /\ det_mask = <<>>
    /\ det_result = NoResult
    /\ DsIdle
    /\ DlIdle
    /\ VzIdle
    /\ CtcIdle
    /\ IiifIdle

objVars == <<onnx_model_file, line_session, can_run, det_calls,
             line_model_path, ocr_model_weights, line_detector, ocr_model,
             p_can_run, image_files, runs, dsVars, dlVars, vzVars, ctcVars,
             iiifVars>>

\* line 541: the directory holds no page image
NoImages(found) == Len(found) = 0

\* variant: no page is skipped
SkipPageNever(predicted_lines) == FALSE

\* line 569: the page has no line
SkipPage(predicted_lines) == Len(predicted_lines) = 0

\* variant: the exporters are resolved before the directory is looked at
ExportersResolvedFirst(old, output_formats, found) ==
    ResolveExporters(old, output_formats)

\* self.exporters after lines 541-559 of a run call that found these pages
ExportersAfterRun(old, output_formats, found) ==
    IF NoImages(found) THEN old ELSE ResolveExporters(old, output_formats)

\* the directories lines 541-559 create for a run call
DirsAfterRun(old, output_formats, ctl, found) ==
    IF NoImages(found) THEN old
    ELSE old \cup (IF ctl THEN {"line_predictions"} ELSE {})
             \cup DirsOf(NewExporters(output_formats))

\* the loop's step to the next page (the continue, or the end of the body)
NextPage ==
    /\ idx' = idx + 1
    /\ pc' = IF idx + 1 > Len(images) THEN "returned" ELSE "segment"

\* run(image_dir, output_formats, mode, output_encoding, write_control_image)
\* up to the page loop (lines 537-559).  The caller's mode, encoding and
\* control-image flag are those chosen at Init; the format list is chosen
\* per call.
RunCall ==
    /\ pc \in {"idle", "returned", "raised"}
    /\ runs < MaxRuns
    /\ \E dir \in Directories, fmts \in FormatLists :
         LET found == NatSorted(dir)
         IN /\ image_files' = dir
            /\ args' = [args EXCEPT !.output_formats = fmts]
            /\ images' = found
            /\ exporters' = ExportersAfterRun(exporters, fmts, found)
            /\ out_dirs' = DirsAfterRun(out_dirs, fmts,
                                        args.write_control_image, found)
            /\ IF NoImages(found)
               THEN /\ errors' = Append(errors, "No images found in directory")
                    /\ pc' = "returned"
                    /\ idx' = 0
               ELSE /\ pc' = "segment"
                    /\ idx' = 1
                    /\ UNCHANGED errors
    /\ runs' = runs + 1
    /\ trace' = <<>>
    /\ predicted_text_lines' = <<>>
    /\ det_mask' = <<>>
    /\ det_result' = NoResult
    /\ UNCHANGED <<onnx_model_file, line_session, can_run, det_calls,
                   line_model_path, ocr_model_weights, line_detector,
                   ocr_model, p_can_run, dsVars, dlVars, vzVars, ctcVars,
                   iiifVars>>

\* lines 562-573: read the page, run the line detector, skip an empty page
Segment ==
    /\ pc = "segment"
    /\ IF line_detector = "None"
       THEN \* self._line_detector.run on None
            /\ pc' = "raised"
            /\ trace' = Append(trace, Event("raise", images[idx], 0, "AttributeError"))
            /\ UNCHANGED <<det_mask, det_result, errors, idx>>
       ELSE \E mask \in PageMasks :
            LET r == DetectorRun(can_run, mask)
                seg == Event("seg", images[idx],
                             IF r.ret.outcome = "None" THEN -1
                             ELSE Len(r.ret.line_images), "LineDetector")
            IN /\ det_mask' = mask
               /\ det_result' = r.ret
               /\ errors' = errors \o r.errors
               /\ IF r.ret.outcome = "None"
                  THEN \* unpacking None into four names
                       /\ pc' = "raised"
                       /\ trace' = trace \o
                            <<seg, Event("raise", images[idx], 0, "TypeError")>>
                       /\ UNCHANGED idx
                  ELSE IF SkipPage(r.ret.line_images)
                  THEN /\ trace' = Append(trace, seg)
                       /\ NextPage
                  ELSE /\ trace' = trace \o
                            (IF args.write_control_image
                             THEN <<seg, Event("ctl", images[idx], 0, "_save_prediction")>>
                             ELSE <<seg>>)
                       /\ pc' = "decode"
                       /\ UNCHANGED idx
    /\ predicted_text_lines' = <<>>
    /\ UNCHANGED <<objVars, exporters, out_dirs, args, images>>

\* the dec events of decoder calls 1..n of a page in sequential mode
DecEvents(page, n) == [i \in 1..n |-> Event("dec", page, i, "run")]

\* lines 575-590: decode the lines of the page, batched or one by one
Decode ==
    /\ pc = "decode"
    /\ LET lines == det_result.line_images
           page == images[idx]
           n == Len(lines)
       IN IF ocr_model = "None"
          THEN \* self._ocr_model.run_batched / .run on None
               /\ pc' = "raised"
               /\ trace' = Append(trace, Event("raise", page, 0, "AttributeError"))
               /\ UNCHANGED <<predicted_text_lines, idx>>
          ELSE LET raw == IF args.mode = "batched" THEN OcrRunBatched(lines)
                          ELSE [i \in 1..n |-> OcrRun(lines[i])]
                   calls(k) == IF args.mode = "batched"
                               THEN <<Event("dec", page, 0, "run_batched")>>
                               ELSE DecEvents(page, k)
               IN \E conv \in [1..n -> UNION {ToUnicode(raw[i]) \cup {raw[i]} : i \in 1..n}] :
                    /\ \A i \in 1..n :
                         conv[i] \in IF args.output_encoding = "unicode"
                                     THEN ToUnicode(raw[i]) ELSE {raw[i]}
                    /\ IF \E i \in 1..n : conv[i] = Raise
                       THEN LET j == CHOOSE i \in 1..n :
                                       /\ conv[i] = Raise
                                       /\ \A m \in 1..(i - 1) : conv[m] # Raise
                            IN /\ \A m \in (j + 1)..n : conv[m] = Raise
                               /\ pc' = "raised"
                               /\ trace' = trace \o calls(j) \o
                                    <<Event("raise", page, j, "TypeError")>>
                               /\ UNCHANGED <<predicted_text_lines, idx>>
                       ELSE /\ predicted_text_lines' = conv
                            /\ trace' = trace \o calls(n)
                            /\ IF Len(exporters) > 0
                               THEN /\ pc' = "export"
                                    /\ UNCHANGED idx
                               ELSE NextPage
    /\ UNCHANGED <<objVars, exporters, out_dirs, args, images, det_mask,
                   det_result, errors>>

\* the exp events of export calls 1..n of the loop over self.exporters
ExpEvents(page, n) == [i \in 1..n |-> Event("exp", page, i, exporters[i])]

\* lines 592-602: the loop over self.exporters; an export call that raises
\* ends the run
Export ==
    /\ pc = "export"
    /\ LET page == images[idx]
           n == Len(exporters)
           mayRaise == {i \in 1..n :
                          "raise" \in ExportOutcomes(exporters[i], predicted_text_lines)}
       IN \/ /\ \A i \in 1..n : "ok" \in ExportOutcomes(exporters[i], predicted_text_lines)
             /\ trace' = trace \o ExpEvents(page, n)
             /\ NextPage
          \/ \E j \in mayRaise :
               /\ \A i \in 1..(j - 1) : "ok" \in ExportOutcomes(exporters[i], predicted_text_lines)
               /\ pc' = "raised"
               /\ trace' = trace \o ExpEvents(page, j) \o
                    <<Event("raise", page, j, "TypeError")>>
               /\ UNCHANGED idx
    /\ UNCHANGED <<objVars, exporters, out_dirs, args, images, det_mask,
                   det_result, errors, predicted_text_lines>>

PipeNext == RunCall \/ Segment \/ Decode \/ Export

SpecPipeline == PipeInit /\ [][PipeNext]_vars

(***************************************************************************)
(* The line detector used on its own.                                      *)
(***************************************************************************)
PipeIdle ==
    /\ line_model_path = ""
    /\ ocr_model_weights = ""
    /\ line_detector = "None"
    /\ ocr_model = "None"
    /\ p_can_run = FALSE
    /\ exporters = <<>>
    /\ image_files = {}
    /\ out_dirs = {}
    /\ pc = "idle"
    /\ runs = 0
    /\ args = NoArgs
    /\ images = <<>>
    /\ idx = 0
    /\ predicted_text_lines = <<>>
    /\ trace = <<>>

DetInit ==
    /\ onnx_model_file \in {"None", "missing", "model"}
    /\ line_session = DetectorInit(onnx_model_file).line_session
    /\ can_run = DetectorInit(onnx_model_file).can_run
    /\ errors = DetectorInit(onnx_model_file).errors
    /\ det_calls = 0
    /\ det_mask = <<>>
    /\ det_result = NoResult
    /\ PipeIdle
    /\ DsIdle
    /\ DlIdle
    /\ VzIdle
    /\ CtcIdle
    /\ IiifIdle

\* one call of LineDetector.run(image); the mask is the network's answer
LineDetectorRun ==
    /\ det_calls < MaxCalls
    /\ \E mask \in Masks :
         LET r == DetectorRun(can_run, mask)
         IN /\ det_mask' = mask
            /\ det_result' = r.ret
            /\ errors' = errors \o r.errors
    /\ det_calls' = det_calls + 1
    /\ UNCHANGED <<onnx_model_file, line_session, can_run, pipeVars, dsVars,
                   dlVars, vzVars, ctcVars, iiifVars>>

DetNext == LineDetectorRun

SpecDetector == DetInit /\ [][DetNext]_vars

(***************************************************************************)
(* OCRDataset._create_sets.                                                *)
(***************************************************************************)
\* list(range(a, b)): the integers a .. b-1
Range(a, b) == IF b > a THEN [i \in 1..(b - a) |-> a + i - 1] ELSE <<>>

RatioDen == 2 ^ RatioBits

\* variant: the batches counted as __len__ counts them, a short one included
MaxBatchesCeil(n, b) == (n + b - 1) \div b

\* lines 98-100: (len(images) - len(images) % batch_size) // batch_size
MaxBatches(n, b) == (n - (n % b)) \div b

\* line 102: int(max_batches * train_test_split), the split being the
\* double ratio / 2^RatioBits (the product is exact, int() truncates)
TrainBatches(max_batches, ratio) == (max_batches * ratio) \div RatioDen

\* line 103
ValBatches(max_batches, train_batches) == (max_batches - train_batches) \div 2

\* variant: the test range starts where the validation range starts
TestIdxFromVal(train_batches, val_batches, b) ==
    Range(train_batches * b, train_batches * b + val_batches * b)

\* lines 113-119: the test indices
TestIdx(train_batches, val_batches, b) ==
    Range(train_batches * b + val_batches * b,
          train_batches * b + val_batches * b * 2)

\* OCRDataset._create_sets(images, labels)
CreateSets(imgs, b, ratio) ==
    LET max_batches == MaxBatches(Len(imgs), b)
        train_batches == TrainBatches(max_batches, ratio)
        val_batches == ValBatches(max_batches, train_batches)
    IN [train |-> Range(0, train_batches * b),
        val |-> Range(train_batches * b, train_batches * b + val_batches * b),
        test |-> TestIdx(train_batches, val_batches, b)]

DsInit ==
    /\ \E n \in 0..MaxSamples : ds_images = [i \in 1..n |-> i]
    /\ batch_size \in 1..MaxBatch
    /\ train_test_split \in 0..RatioDen
    /\ train_idx = <<>>
    /\ val_idx = <<>>
    /\ test_idx = <<>>
    /\ ds_pc = "new"

\* lines 68-70: the split of the shuffled sample list
CreateSetsCall ==
    /\ ds_pc = "new"
    /\ LET r == CreateSets(ds_images, batch_size, train_test_split)
       IN /\ train_idx' = r.train
          /\ val_idx' = r.val
          /\ test_idx' = r.test
    /\ ds_pc' = "split"
    /\ UNCHANGED <<ds_images, batch_size, train_test_split>>

DatasetInit ==
    /\ DsInit
    /\ DlIdle
    /\ VzIdle
    /\ CtcIdle
    /\ IiifIdle
    /\ PipeIdle
    /\ onnx_model_file = "None"
    /\ line_session = None
    /\ can_run = FALSE
    /\ errors = <<>>
    /\ det_calls = 0
    /\ det_mask = <<>>
    /\ det_result = NoResult

DatasetNext ==
    CreateSetsCall /\ UNCHANGED <<detVars, errors, pipeVars, dlVars, vzVars,
                                  ctcVars, iiifVars>>

SpecDataset == DatasetInit /\ [][DatasetNext]_vars

(***************************************************************************)
(* The charset, TextVectorizer and OCRDataLoader.                          *)
(* A label is a sequence of one-character strings; a charset is a          *)
(* sequence of tokens.  Python indices are 0-based.                        *)
(***************************************************************************)
\* the characters of the corpus, in code-point order
Alphabet == <<"a", "b">>

\* sorted(charset) of a set of characters
Sorted(chars) == SelectSeq(Alphabet, LAMBDA c : c \in chars)

\* OCRDataset.build_charset: the sorted characters of the labels, "[BLK]"
\* appended and "[UNK]" inserted at index 0
BuildCharset(chars) == <<"[UNK]">> \o Sorted(chars) \o <<"[BLK]">>

\* variant: a character that is not in the charset gets the index of "[UNK]"
IndexOrUnknown(charset, x) ==
    IF \E i \in DOMAIN charset : charset[i] = x
    THEN (CHOOSE i \in DOMAIN charset :
            charset[i] = x /\ \A j \in 1..(i - 1) : charset[j] # x) - 1
    ELSE 0

\* charset.index(x): the first position of x, or -1 for the ValueError
Index(charset, x) ==
    IF \E i \in DOMAIN charset : charset[i] = x
    THEN (CHOOSE i \in DOMAIN charset :
            charset[i] = x /\ \A j \in 1..(i - 1) : charset[j] # x) - 1
    ELSE -1

\* variant: the padding put in front, paddings=[[pad_amount, 0]]
PadLeft(vec_label, pad_amount, token) ==
    [i \in 1..pad_amount |-> token] \o vec_label

\* tf.pad(vec_label, paddings=[[0, pad_amount]], constant_values=token)
Pad(vec_label, pad_amount, token) ==
    vec_label \o [i \in 1..pad_amount |-> token]

\* variant: tf.pad takes a negative amount for no padding
NegativePadAccepted(pad_amount) == FALSE

\* tf.pad checks its paddings: a negative amount raises InvalidArgumentError
NegativePad(pad_amount) == pad_amount < 0

\* TextVectorizer.__call__ (pad_sequences is True): the padded index
\* vector; a character that is not in the charset makes index() raise,
\* a negative pad amount makes tf.pad raise
Vectorize(charset, item) ==
    LET vec_label == [i \in DOMAIN item |-> Index(charset, item[i])]
        pad_amount == sequence_length - Len(vec_label)
    IN IF \E i \in DOMAIN vec_label : vec_label[i] = -1
       THEN [outcome |-> "ValueError", vec |-> <<>>]
       ELSE IF NegativePad(pad_amount)
       THEN [outcome |-> "InvalidArgumentError", vec |-> <<>>]
       ELSE [outcome |-> "ok", vec |-> Pad(vec_label, pad_amount, padding_token)]

\* variant: the length of the padded vector, len(gtTexts[idx])
LabelLengthPadded(lbl, vec) == Len(vec)

\* line 219: label_length[idx] = len(lbl)
LabelLength(lbl, vec) == Len(lbl)

\* OCRDataLoader.__len__: ceil(len(images) / batch_size)
LoaderLen(n, b) == (n + b - 1) \div b

\* the slice x[lo:hi] of a list (0-based, hi exclusive, cut at the end)
Slice(x, lo, hi) ==
    LET top == IF hi < Len(x) THEN hi ELSE Len(x)
    IN IF top > lo THEN [i \in 1..(top - lo) |-> x[lo + i]] ELSE <<>>

Ones(n) == [i \in 1..n |-> 1]

\* OCRDataLoader.__getitem__(idx): the inputs dictionary, or the error of
\* the first sample whose label cannot be vectorized or stored
GetItem(labels, b, charset, i) ==
    LET label_batch == Slice(labels, i * b, (i + 1) * b)
        vecs == [j \in DOMAIN label_batch |-> Vectorize(charset, label_batch[j])]
        bad == {j \in DOMAIN label_batch :
                  \/ vecs[j].outcome # "ok"
                  \/ Len(vecs[j].vec) # max_output_length}
    IN IF bad # {}
       THEN LET j == CHOOSE x \in bad : \A y \in bad : x <= y
            IN [outcome |-> IF vecs[j].outcome # "ok" THEN vecs[j].outcome
                            ELSE "ValueError",
                the_input |-> <<>>, the_labels |-> <<>>,
                input_length |-> <<>>, label_length |-> <<>>]
       ELSE [outcome |-> "ok",
             the_input |-> [j \in 1..b |-> IF j \in DOMAIN label_batch
                                           THEN i * b + j ELSE 0],
             the_labels |-> [j \in 1..b |-> IF j \in DOMAIN label_batch
                                            THEN vecs[j].vec
                                            ELSE Ones(max_output_length)],
             input_length |-> [j \in 1..b |-> max_output_length],
             label_length |-> [j \in 1..b |-> IF j \in DOMAIN label_batch
                                              THEN LabelLength(label_batch[j], vecs[j].vec)
                                              ELSE 0]]

\* the labels LabelReader hands back: short ones, and ones of about the
\* vectorizer's sequence length
Labels ==
    UNION {[1..n -> {Alphabet[i] : i \in DOMAIN Alphabet}] : n \in 0..MaxLabelLen}
    \cup {[i \in 1..n |-> Alphabet[1]] : n \in {sequence_length, sequence_length + 1}}

LoaderInit ==
    /\ dl_labels \in UNION {[1..n -> Labels] : n \in 0..MaxLoaderSamples}
    /\ dl_batch_size \in 1..MaxLoaderBatch
    /\ dl_charset \in {BuildCharset(c) :
                         c \in (SUBSET {Alphabet[i] : i \in DOMAIN Alphabet}) \ {{}}}
    /\ dl_idx = 0
    /\ dl_result = NoBatch
    /\ DsIdle
    /\ VzIdle
    /\ CtcIdle
    /\ IiifIdle
    /\ PipeIdle
    /\ onnx_model_file = "None"
    /\ line_session = None
    /\ can_run = FALSE
    /\ errors = <<>>
    /\ det_calls = 0
    /\ det_mask = <<>>
    /\ det_result = NoResult

\* one __getitem__(i) call, i < __len__()
GetItemCall ==
    /\ \E i \in 0..(LoaderLen(Len(dl_labels), dl_batch_size) - 1) :
         /\ dl_idx' = i
         /\ dl_result' = GetItem(dl_labels, dl_batch_size, dl_charset, i)
    /\ UNCHANGED <<dl_labels, dl_batch_size, dl_charset>>

LoaderNext ==
    GetItemCall /\ UNCHANGED <<detVars, errors, pipeVars, dsVars, vzVars,
                               ctcVars, iiifVars>>

SpecLoader == LoaderInit /\ [][LoaderNext]_vars

(***************************************************************************)
(* TextVectorizer used on its own.                                         *)
(***************************************************************************)
\* the objects of the other specifications, not constructed
DetIdle ==
    /\ onnx_model_file = "None"
    /\ line_session = None
    /\ can_run = FALSE
    /\ errors = <<>>
    /\ det_calls = 0
    /\ det_mask = <<>>
    /\ det_result = NoResult

\* TextVectorizer.__call__(item): with pad_sequences the padded vector,
\* without it the index list as it is
VectorizerCall(charset, pad_sequences, item) ==
    IF pad_sequences
    THEN Vectorize(charset, item)
    ELSE LET vec_label == [i \in DOMAIN item |-> Index(charset, item[i])]
         IN IF \E i \in DOMAIN vec_label : vec_label[i] = -1
            THEN [outcome |-> "ValueError", vec |-> <<>>]
            ELSE [outcome |-> "ok", vec |-> vec_label]

\* the texts handed to a vectorizer: short ones, and ones of about
\* sequence_length characters
Texts ==
    UNION {[1..n -> {Alphabet[i] : i \in DOMAIN Alphabet}] : n \in 0..MaxTextLen}
    \cup {[i \in 1..n |-> Alphabet[1]] :
             n \in (sequence_length - 1)..(sequence_length + 2)}

VectorizerInit ==
    /\ vz_charset \in {BuildCharset(c) :
                         c \in (SUBSET {Alphabet[i] : i \in DOMAIN Alphabet}) \ {{}}}
    /\ vz_pad_sequences \in BOOLEAN
    /\ vz_item = <<>>
    /\ vz_result = NoVector
    /\ DetIdle
    /\ PipeIdle
    /\ DsIdle
    /\ DlIdle
    /\ CtcIdle
    /\ IiifIdle

\* one __call__(item) on the vectorizer
VectorizerCallAction ==
    /\ \E item \in Texts :
         /\ vz_item' = item
         /\ vz_result' = VectorizerCall(vz_charset, vz_pad_sequences, item)
    /\ UNCHANGED <<vz_charset, vz_pad_sequences>>

VectorizerNext ==
    VectorizerCallAction /\ UNCHANGED <<detVars, errors, pipeVars, dsVars,
                                        dlVars, ctcVars, iiifVars>>

SpecVectorizer == VectorizerInit /\ [][VectorizerNext]_vars

(***************************************************************************)
(* OCRInference._decode_prediction.                                        *)
(* A prediction is a sequence of timesteps, each a score per class; the    *)
(* classes are the 0-based indices of model_characters.                    *)
(***************************************************************************)
\* the model_characters list handed to OCRInference
ModelCharacters == <<"a", "§", "[BLK]">>
Classes == 0..(Len(ModelCharacters) - 1)
Scores == {0, 1, 2}

\* the softmax rows of the network: one class has the highest score
Rows == {r \in [Classes -> Scores] :
           \E c \in Classes : \A d \in Classes \ {c} : r[d] < r[c]}
Predictions == UNION {[1..t -> Rows] : t \in 1..MaxSteps}

\* the class of the highest score of a timestep
ArgMax(row) == CHOOSE c \in Classes : \A d \in Classes : row[d] <= row[c]

\* variant: the first class taken for the blank
BlankClassFirst(num_classes) == 0

\* K.ctc_decode takes the last class for the blank
BlankClass(num_classes) == num_classes - 1

\* variant: ctc_greedy_decoder(merge_repeated=False)
EmitNoMerge(class, prev, blank) == class # blank

\* ctc_greedy_decoder: a timestep emits its class unless the class is the
\* blank or the class of the timestep before
Emit(class, prev, blank) == class # blank /\ class # prev

\* K.ctc_decode(prediction, greedy=True)[0][0], the row of the one sample
RECURSIVE CtcGreedy(_, _, _)
CtcGreedy(prediction, prev, blank) ==
    IF prediction = <<>> THEN <<>>
    ELSE LET c == ArgMax(Head(prediction))
         IN (IF Emit(c, prev, blank) THEN <<c>> ELSE <<>>)
            \o CtcGreedy(Tail(prediction), c, blank)

\* np.delete(out, np.where(out == -1))
FilteredOut(out) == SelectSeq(out, LAMBDA x : x # -1)

\* decoded.replace("§", " "), character by character
ReplaceTseg(ch) == IF ch = "§" THEN " " ELSE ch

\* OCRInference._decode_prediction: the index list and the text, one
\* entry per decoded token
DecodePrediction(prediction) ==
    LET out == CtcGreedy(prediction, -1, BlankClass(Len(ModelCharacters)))
        filtered_list == FilteredOut(out)
    IN [filtered_list |-> filtered_list,
        decoded |-> [i \in DOMAIN filtered_list |->
                       ReplaceTseg(ModelCharacters[filtered_list[i] + 1])]]

\* the prediction that gives each class of a token sequence the score 1
OneHot(tokens) ==
    [t \in DOMAIN tokens |-> [c \in Classes |-> IF c = tokens[t] THEN 1 ELSE 0]]

DecoderInit ==
    /\ ctc_prediction \in Predictions
    /\ ctc_out = <<>>
    /\ ctc_decoded = <<>>
    /\ ctc_prev = <<>>
    /\ ctc_calls = 0
    /\ DetIdle
    /\ PipeIdle
    /\ DsIdle
    /\ DlIdle
    /\ VzIdle
    /\ IiifIdle

\* _decode_prediction(prediction) on the output of the network
DecodePredictionCall ==
    /\ ctc_calls = 0
    /\ LET r == DecodePrediction(ctc_prediction)
       IN /\ ctc_out' = r.filtered_list
          /\ ctc_decoded' = r.decoded
    /\ ctc_calls' = 1
    /\ UNCHANGED <<ctc_prediction, ctc_prev>>

\* _decode_prediction on the prediction that spells the index list of the
\* call before
DecodeOwnOutput ==
    /\ ctc_calls = 1
    /\ ctc_out # <<>>
    /\ LET r == DecodePrediction(OneHot(ctc_out))
       IN /\ ctc_prediction' = OneHot(ctc_out)
          /\ ctc_prev' = ctc_out
          /\ ctc_out' = r.filtered_list
          /\ ctc_decoded' = r.decoded
    /\ ctc_calls' = 2

DecoderNext ==
    (DecodePredictionCall \/ DecodeOwnOutput)
      /\ UNCHANGED <<detVars, errors, pipeVars, dsVars, dlVars, vzVars, iiifVars>>

SpecDecoder == DecoderInit /\ [][DecoderNext]_vars

(***************************************************************************)
(* IIIFDownloader.download.  A canvas is known by the img_name of its      *)
(* image; the files of the volume directory are known by the same names.   *)
(***************************************************************************)
ImageNames == {"I1", "I2", "I3"}
Manifests == UNION {[1..m -> ImageNames] : m \in 0..MaxImages}

\* the file_limit arguments: negative, zero, and up to one above the
\* longest manifest
Limits == (0 - 1)..(MaxImages + 1)

\* requests.get(img_url, stream=True): a response with status 200, a
\* response with another status, or an exception (no connection)
FetchOutcomes == {"200", "404", "ConnectionError"}

\* lines 119-120: the loop bound for a manifest of max_images > 0 images
FileLimit(file_limit, max_images) ==
    IF file_limit = 0 \/ file_limit > max_images \/ file_limit < 0
    THEN max_images
    ELSE file_limit

\* variant: the file is fetched whether it is there or not
IsFileNever(disk, name) == FALSE

\* os.path.isfile(out_file)
IsFile(disk, name) == name \in disk

DownloaderInit ==
    /\ iiif_canvases \in Manifests
    /\ iiif_limit \in Limits
    /\ iiif_disk0 \in SUBSET ImageNames
    /\ iiif_disk = iiif_disk0
    /\ iiif_pc = "idle"
    /\ iiif_idx = 0
    /\ iiif_file_limit = iiif_limit
    /\ iiif_requests = <<>>
    /\ DetIdle
    /\ PipeIdle
    /\ DsIdle
    /\ DlIdle
    /\ VzIdle
    /\ CtcIdle

\* download(manifest_link, file_limit) up to the loop (lines 103-120); the
\* manifest is read and the volume directory is there
DownloadCall ==
    /\ iiif_pc = "idle"
    /\ LET max_images == Len(iiif_canvases)
       IN IF max_images > 0
          THEN /\ iiif_file_limit' = FileLimit(iiif_limit, max_images)
               /\ iiif_pc' = "loop"
          ELSE /\ iiif_pc' = "returned"
               /\ UNCHANGED iiif_file_limit
    /\ iiif_idx' = 0
    /\ UNCHANGED <<iiif_canvases, iiif_limit, iiif_disk0, iiif_disk, iiif_requests>>

\* the step of the loop to the next index
NextImage ==
    /\ iiif_idx' = iiif_idx + 1
    /\ iiif_pc' = IF iiif_idx + 1 < iiif_file_limit THEN "loop" ELSE "returned"

\* one pass of the loop body (lines 123-132)
DownloadImage ==
    /\ iiif_pc = "loop"
    /\ LET img_name == iiif_canvases[iiif_idx + 1]
       IN IF IsFile(iiif_disk, img_name)
          THEN /\ NextImage
               /\ UNCHANGED <<iiif_disk, iiif_requests>>
          ELSE \E res \in FetchOutcomes :
                 /\ iiif_requests' = Append(iiif_requests,
                       [idx |-> iiif_idx, name |-> img_name, status |-> res])
                 /\ IF res = "ConnectionError"
                    THEN \* the exception of requests.get leaves download
                         /\ iiif_pc' = "raised"
                         /\ UNCHANGED <<iiif_idx, iiif_disk>>
                    ELSE /\ iiif_disk' = IF res = "200"
                                          THEN iiif_disk \cup {img_name}
                                          ELSE iiif_disk
                         /\ NextImage
    /\ UNCHANGED <<iiif_canvases, iiif_limit, iiif_disk0, iiif_file_limit>>

DownloaderNext ==
    (DownloadCall \/ DownloadImage)
      /\ UNCHANGED <<detVars, errors, pipeVars, dsVars, dlVars, vzVars, ctcVars>>

SpecDownloader == DownloaderInit /\ [][DownloaderNext]_vars

(***************************************************************************)
(* Properties of InferencePipeline.run (SpecPipeline).                     *)
(***************************************************************************)
TraceIdx == DOMAIN trace
PageEvents(page, ev) == {i \in TraceIdx : trace[i].page = page /\ trace[i].ev = ev}
PosOf(page) == CHOOSE i \in DOMAIN images : images[i] = page
Rank(ev) == CASE ev = "seg" -> 1 [] ev = "ctl" -> 2 [] ev = "dec" -> 3
              [] ev = "exp" -> 4 [] OTHER -> 5
KindOf(fmt) == CASE fmt = "xml" -> "PageXML" [] fmt = "text" -> "TextOutput"
                 [] fmt = "prodigy" -> "ProdigyLines" [] OTHER -> "none"
Recognised == {"xml", "text", "prodigy"}

\* C1: a page for which the segmenter returns zero line images (no contour
\* of its mask has an area above 2000) gets no decoder call, no exporter
\* call and no error; the run goes on with the next page (or returns after
\* the last one), and a run that returns has segmented every page and has
\* decoded and exported every page that has lines.
C1_EmptyPageSkipped ==
    /\ \A i \in TraceIdx :
         (trace[i].ev = "seg" /\ trace[i].k = 0) =>
           /\ \A j \in TraceIdx :
                trace[j].page = trace[i].page => trace[j].ev = "seg"
           /\ i = Len(trace) =>
                /\ pc \in {"segment", "returned"}
                /\ idx = PosOf(trace[i].page) + 1
                /\ (pc = "returned") = (PosOf(trace[i].page) = Len(images))
    /\ (pc \in {"segment", "returned"} /\ det_result.outcome = "tuple"
          /\ \A c \in DOMAIN det_mask : det_mask[c].area <= AreaThreshold)
         => (trace # <<>> /\ trace[Len(trace)].ev = "seg" /\ trace[Len(trace)].k = 0)
    /\ pc = "returned" =>
         \A p \in DOMAIN images :
           /\ Cardinality(PageEvents(images[p], "seg")) = 1
           /\ \A i \in PageEvents(images[p], "seg") :
                trace[i].k > 0 =>
                  /\ PageEvents(images[p], "dec") # {}
                  /\ \A e \in DOMAIN exporters :
                       \E x \in PageEvents(images[p], "exp") : trace[x].k = e

\* a run that skipped an empty page and then decoded and exported a later one
C1_Witness ==
    /\ pc = "returned"
    /\ Len(images) = 2
    /\ \E i \in PageEvents(images[1], "seg") : trace[i].k = 0
    /\ det_mask # <<>>
    /\ PageEvents(images[2], "exp") # {}
    /\ PageEvents(images[2], "dec") # {}

\* C2: within one run the pages are handled one at a time in natural
\* filename order; for each page the segmenter call comes before every
\* decoder call, every decoder call before every exporter call, and the
\* exporter calls follow the registration order of self.exporters.
C2_CallOrder ==
    /\ \A p \in DOMAIN images : \A q \in DOMAIN images :
         p < q => images[p] < images[q]
    /\ \A i \in TraceIdx : \A j \in TraceIdx :
         i < j =>
           /\ trace[i].page <= trace[j].page
           /\ trace[i].page = trace[j].page => Rank(trace[i].ev) <= Rank(trace[j].ev)
           /\ (trace[i].page = trace[j].page /\ trace[i].ev = "exp"
                 /\ trace[j].ev = "exp") => trace[i].k < trace[j].k
    /\ \A i \in TraceIdx :
         /\ \E p \in DOMAIN images : images[p] = trace[i].page /\ p <= idx
         /\ trace[i].ev = "exp" =>
              /\ trace[i].k \in DOMAIN exporters
              /\ trace[i].who = exporters[trace[i].k]

\* a sequential run over 2.jpg and 10.jpg with two decoder calls and two
\* exporter calls on the second page
C2_Witness ==
    /\ pc = "returned"
    /\ images = <<2, 10>>
    /\ args.mode = "sequential"
    /\ Cardinality(PageEvents(10, "dec")) = 2
    /\ Cardinality(PageEvents(10, "exp")) >= 2
    /\ PageEvents(2, "exp") # {}

\* C3: the exporters are resolved per run from that run's format list: in
\* every run call every exporter call is made by an exporter of a requested
\* recognised format, no page is exported twice by the same kind of
\* exporter, and a page that was exported got one call per requested
\* recognised format.
C3_ExportersPerRun ==
    /\ \A i \in TraceIdx :
         trace[i].ev = "exp" =>
           /\ \E f \in args.output_formats : KindOf(f) = trace[i].who
           /\ \A j \in TraceIdx :
                (j # i /\ trace[j].ev = "exp" /\ trace[j].page = trace[i].page)
                  => trace[j].who # trace[i].who
    /\ pc = "returned" =>
         \A p \in DOMAIN images :
           PageEvents(images[p], "dec") # {} =>
             \A f \in args.output_formats \cap Recognised :
               Cardinality({x \in PageEvents(images[p], "exp") :
                              trace[x].who = KindOf(f)}) = 1

\* C4: without a line detector that can run and a decoder, run processes no
\* page, calls no exporter and logs the condition; no exception leaves run.
C4_RefusesToRun ==
    (runs > 0 /\ (line_detector = "None" \/ ocr_model = "None" \/ ~can_run)) =>
      /\ pc # "raised"
      /\ \A i \in TraceIdx : trace[i].ev \notin {"seg", "dec", "exp", "raise"}
      /\ pc = "returned" => errors # <<>>

\* C6: a run call on a directory without page images logs the error and
\* returns at once: no segmenter, decoder or exporter call, no exporter
\* object and no output directory created, self.exporters left as it was.
C6_EmptyDirectory ==
    [][(runs' = runs + 1 /\ image_files' = {}) =>
         /\ pc' = "returned"
         /\ errors' = Append(errors, "No images found in directory")
         /\ trace' = <<>>
         /\ det_result' = NoResult
         /\ exporters' = exporters
         /\ out_dirs' = out_dirs]_vars

\* a second run, on an empty directory, of a pipeline holding exporters
C6_Witness ==
    /\ runs = 2
    /\ image_files = {}
    /\ args.output_formats = {"xml", "text"}
    /\ args.write_control_image
    /\ exporters = <<"ProdigyLines">>
    /\ pc = "returned"
    /\ trace = <<>>

\* C17: in sequential mode as in batched mode the exporters are handed
\* one decoded text string per detected line, in line order, in the
\* encoding asked for, and the decoding step raises in neither mode.
C17_SequentialAsBatched ==
    /\ pc = "export" =>
         /\ Len(predicted_text_lines) = Len(det_result.line_images)
         /\ \A i \in DOMAIN predicted_text_lines :
              predicted_text_lines[i] =
                [kind |-> "str", enc |-> args.output_encoding,
                 of |-> det_result.line_images[i].crop]
    /\ \A i \in TraceIdx :
         (trace[i].ev = "raise" /\ i > 1) => trace[i - 1].ev # "dec"

\* C21: whenever the exporters are called for a page, in batched and in
\* sequential mode, the line contours, the line images and the decoded
\* texts handed to them have the same length, and entry i of each belongs
\* to the same line: image i is cut from contour i and text i is decoded
\* from image i.
C21_ListsAligned ==
    (pc = "export" \/ (trace # <<>> /\ trace[Len(trace)].ev = "exp")) =>
      /\ Len(det_result.line_boxes) = Len(det_result.line_images)
      /\ Len(predicted_text_lines) = Len(det_result.line_images)
      /\ Len(predicted_text_lines) > 0
      /\ \A i \in DOMAIN det_result.line_boxes :
            /\ det_result.line_images[i].crop = det_result.line_boxes[i].id
            /\ predicted_text_lines[i].of = det_result.line_images[i].crop

\* a sequential run that has exported a page of two lines as PageXML and
\* as Prodigy lines
C21_Witness ==
    /\ pc = "returned"
    /\ args.mode = "sequential"
    /\ trace # <<>>
    /\ trace[Len(trace)].ev = "exp"
    /\ Len(det_result.line_boxes) = 2
    /\ Len(predicted_text_lines) = 2
    /\ exporters = <<"PageXML", "ProdigyLines">>

(***************************************************************************)
(* Properties of LineDetector (SpecDetector).                              *)
(***************************************************************************)
\* C5: a detector whose model load failed has can_run false for good, and
\* every run call on it signals an error to its caller.
C5_FailsLoudly ==
    (onnx_model_file # "model") =>
      /\ ~can_run
      /\ det_calls > 0 => det_result.outcome = "raise"

\* the positions of the contours of the last mask whose area is above 2000
Survivors == {c \in DOMAIN det_mask : det_mask[c].area > AreaThreshold}
LineBoxes == det_result.line_boxes

\* C13: every line contour that run hands back is a contour of the mask
\* whose area is above 2000; a contour of area 2000 or less is in no
\* returned list.
C13_AreaStrictlyGreater ==
    det_result.outcome = "tuple" =>
      /\ \A i \in DOMAIN LineBoxes :
            /\ LineBoxes[i].area > AreaThreshold
            /\ LineBoxes[i].id \in DOMAIN det_mask
            /\ det_mask[LineBoxes[i].id] = LineBoxes[i]
      /\ \A c \in DOMAIN det_mask :
            det_mask[c].area <= AreaThreshold =>
              \A i \in DOMAIN LineBoxes : LineBoxes[i].id # c

\* a mask with a contour of area 2000 and one of area 2001: one line
C13_Witness ==
    /\ det_result.outcome = "tuple"
    /\ Len(det_mask) = 2
    /\ det_mask[1].area = AreaThreshold
    /\ det_mask[2].area = AreaThreshold + 1
    /\ Len(LineBoxes) = 1
    /\ LineBoxes[1].id = 2

\* C14: the line contours run hands back are in ascending order of the
\* vertical center int(y + h / 2) of their bounding rectangle, whatever
\* the order of the contours in the mask; the line images are in the order
\* of the contours (image i is cut from contour i); when the surviving
\* contours have different centers, all of them are handed back.
C14_SortedByCenter ==
    det_result.outcome = "tuple" =>
      /\ \A i \in DOMAIN LineBoxes : \A j \in DOMAIN LineBoxes :
            i < j => CenterY(LineBoxes[i]) <= CenterY(LineBoxes[j])
      /\ Len(det_result.line_images) = Len(LineBoxes)
      /\ \A i \in DOMAIN LineBoxes :
            det_result.line_images[i].crop = LineBoxes[i].id
      /\ (\A c \in Survivors : \A d \in Survivors :
             c # d => CenterY(det_mask[c]) # CenterY(det_mask[d]))
           => \A c \in Survivors : \E i \in DOMAIN LineBoxes : LineBoxes[i].id = c

\* a mask whose first contour lies below its second one
C14_Witness ==
    /\ det_result.outcome = "tuple"
    /\ Survivors = {1, 2}
    /\ CenterY(det_mask[1]) = 2
    /\ CenterY(det_mask[2]) = 0
    /\ Len(LineBoxes) = 2
    /\ LineBoxes[1].id = 2
    /\ LineBoxes[2].id = 1
    /\ det_result.line_images = <<[crop |-> 2], [crop |-> 1]>>

\* C20: the returned contour list has exactly one entry for each contour
\* of the mask whose area is above 2000, also when surviving contours have
\* the same vertical center.
C20_NoLineLost ==
    det_result.outcome = "tuple" =>
      /\ Len(LineBoxes) = Cardinality(Survivors)
      /\ \A c \in Survivors :
            Cardinality({i \in DOMAIN LineBoxes : LineBoxes[i].id = c}) = 1

(***************************************************************************)
(* Properties of OCRDataset._create_sets (SpecDataset).                    *)
(***************************************************************************)
SeqSet(q) == {q[i] : i \in DOMAIN q}
N == Len(ds_images)

\* C7: the three index sets are pairwise disjoint, the length of each is a
\* multiple of the batch size, their combined length is at most
\* N - (N mod B), and every index is a position of the sample list.
C7_SplitDisjoint ==
    ds_pc = "split" =>
      /\ SeqSet(train_idx) \cap SeqSet(val_idx) = {}
      /\ SeqSet(train_idx) \cap SeqSet(test_idx) = {}
      /\ SeqSet(val_idx) \cap SeqSet(test_idx) = {}
      /\ Len(train_idx) % batch_size = 0
      /\ Len(val_idx) % batch_size = 0
      /\ Len(test_idx) % batch_size = 0
      /\ Len(train_idx) + Len(val_idx) + Len(test_idx) <= N - (N % batch_size)
      /\ \A x \in SeqSet(train_idx) \cup SeqSet(val_idx) \cup SeqSet(test_idx) :
           x \in 0..(N - 1)

\* a split of a sample list that is no multiple of the batch size into
\* three non-empty sets
C7_Witness ==
    /\ ds_pc = "split"
    /\ N % batch_size # 0
    /\ batch_size > 1
    /\ train_idx # <<>>
    /\ val_idx # <<>>
    /\ test_idx # <<>>

\* C8: the three splits are strictly increasing contiguous ranges laid end
\* to end: train is [0, t), validation [t, t+v), test [t+v, t+v+w).
C8_SplitContiguous ==
    ds_pc = "split" =>
      LET t == Len(train_idx)
          v == Len(val_idx)
          w == Len(test_idx)
      IN /\ \A i \in 1..t : train_idx[i] = i - 1
         /\ \A i \in 1..v : val_idx[i] = t + i - 1
         /\ \A i \in 1..w : test_idx[i] = t + v + i - 1

\* a split with at least two indices in each of the three sets
C8_Witness ==
    /\ ds_pc = "split"
    /\ Len(train_idx) >= 2
    /\ Len(val_idx) >= 2
    /\ Len(test_idx) >= 2
    /\ Len(train_idx) # Len(val_idx)

(***************************************************************************)
(* Properties of OCRDataLoader.__getitem__ (SpecLoader).                   *)
(***************************************************************************)
\* the samples of the batch last asked for
BatchCount ==
    LET rest == Len(dl_labels) - dl_idx * dl_batch_size
    IN IF rest < dl_batch_size THEN rest ELSE dl_batch_size
BatchLabel(j) == dl_labels[dl_idx * dl_batch_size + j]
Vectorizable(lbl) ==
    /\ Len(lbl) <= sequence_length
    /\ \A k \in DOMAIN lbl : \E c \in DOMAIN dl_charset : dl_charset[c] = lbl[k]

\* C9: a batch, a short last one included, has exactly B rows in each of
\* its four tensors, and label_length[j] is the unpadded length of the
\* label of sample j for every sample of the batch; a batch whose labels
\* can all be vectorized is returned.
C9_BatchShape ==
    /\ dl_result.outcome = "ok" =>
         /\ Len(dl_result.the_labels) = dl_batch_size
         /\ Len(dl_result.the_input) = dl_batch_size
         /\ Len(dl_result.input_length) = dl_batch_size
         /\ Len(dl_result.label_length) = dl_batch_size
         /\ \A j \in 1..BatchCount :
              dl_result.label_length[j] = Len(BatchLabel(j))
    /\ (dl_result.outcome # "new" /\ \A j \in 1..BatchCount : Vectorizable(BatchLabel(j)))
         => dl_result.outcome = "ok"

\* a batch of size 3 holding two samples whose labels differ in length
C9_Witness ==
    /\ dl_result.outcome = "ok"
    /\ dl_batch_size = 3
    /\ BatchCount = 2
    /\ Len(BatchLabel(1)) = 1
    /\ Len(BatchLabel(2)) = sequence_length

\* the index of the blank sentinel of a charset
BlankIndex(charset) == Index(charset, "[BLK]")
UnknownIndex(charset) == Index(charset, "[UNK]")
RealIndices(charset) ==
    {Index(charset, charset[i]) : i \in {x \in DOMAIN charset :
                                           charset[x] \notin {"[UNK]", "[BLK]"}}}

\* the row of sample j: the charset indices of the label, then only pad
RowPaddedWith(j, pad) ==
    LET row == dl_result.the_labels[j]
        lbl == BatchLabel(j)
    IN /\ Len(row) = max_output_length
       /\ \A k \in 1..Len(lbl) : row[k] = Index(dl_charset, lbl[k])
       /\ \A k \in (Len(lbl) + 1)..Len(row) : row[k] = pad

\* C10 as stated: every row of a real sample is the label's index sequence
\* followed only by the index of the blank sentinel of the charset, which
\* is the index of no real character and not that of the unknown sentinel.
C10_PaddedWithBlank ==
    dl_result.outcome = "ok" =>
      \A j \in 1..BatchCount :
        /\ RowPaddedWith(j, BlankIndex(dl_charset))
        /\ BlankIndex(dl_charset) \notin RealIndices(dl_charset)
        /\ BlankIndex(dl_charset) # UnknownIndex(dl_charset)

\* C10 amended: every row of a real sample is the label's index sequence
\* followed only by padding_token = 0, which in the charset of
\* build_charset is the index of the unknown sentinel "[UNK]": the index of
\* no real character, and not the index of the blank sentinel "[BLK]".
C10_PaddedWithZero ==
    dl_result.outcome = "ok" =>
      \A j \in 1..BatchCount :
        /\ RowPaddedWith(j, padding_token)
        /\ padding_token = UnknownIndex(dl_charset)
        /\ padding_token \notin RealIndices(dl_charset)
        /\ padding_token # BlankIndex(dl_charset)

\* a batch with a one-character label, padded, over a two-character charset
C10_Witness ==
    /\ dl_result.outcome = "ok"
    /\ BatchCount >= 1
    /\ Len(BatchLabel(1)) = 1
    /\ Len(dl_charset) = 4
    /\ dl_result.the_labels[1][1] = 2
    /\ dl_result.the_labels[1][2] = 0

\* the label has a character that is not in the charset of the loader
AbsentChar(lbl) ==
    \E k \in DOMAIN lbl : \A c \in DOMAIN dl_charset : dl_charset[c] # lbl[k]

\* C11: vectorize maps each character to its charset index; a label with a
\* character that is not in the charset makes the call fail with the
\* lookup error of charset.index, and the batch being assembled fails with
\* it: no batch is returned that holds such a label, and a returned row
\* holds at each label position the index of that very character.
C11_AbsentCharFails ==
    dl_result.outcome # "new" =>
      /\ (\E j \in 1..BatchCount : AbsentChar(BatchLabel(j))) =>
            /\ dl_result.outcome # "ok"
            /\ dl_result.the_labels = <<>>
      /\ \A j \in 1..BatchCount :
            (AbsentChar(BatchLabel(j))
               /\ \A i \in 1..(j - 1) : Vectorizable(BatchLabel(i)))
              => dl_result.outcome = "ValueError"
      /\ dl_result.outcome = "ok" =>
            \A j \in 1..BatchCount : \A k \in 1..Len(BatchLabel(j)) :
              /\ dl_result.the_labels[j][k] + 1 \in DOMAIN dl_charset
              /\ dl_charset[dl_result.the_labels[j][k] + 1] = BatchLabel(j)[k]

\* a batch whose first label is vectorized and whose second label has a
\* character the charset lacks
C11_Witness ==
    /\ dl_result.outcome = "ValueError"
    /\ BatchCount = 2
    /\ Len(BatchLabel(1)) = 1
    /\ Vectorizable(BatchLabel(1))
    /\ Len(BatchLabel(2)) = 1
    /\ AbsentChar(BatchLabel(2))

Path == [t \in DOMAIN ctc_prediction |-> ArgMax(ctc_prediction[t])]
Blank == Len(ModelCharacters) - 1
Kept == {t \in DOMAIN Path : Path[t] # Blank /\ (t = 1 \/ Path[t - 1] # Path[t])}
KeptBefore(t) == Cardinality({u \in Kept : u <= t})

\* C15: the decoded index sequence is the per-timestep argmax sequence
\* with every run of equal tokens merged into its first one and the blanks
\* removed; the text has one charset entry per index, the placeholder
\* replaced by a space, and holds neither the blank token nor the
\* placeholder.
C15_GreedyCollapse ==
    ctc_calls > 0 =>
      /\ Len(ctc_out) = Cardinality(Kept)
      /\ \A t \in Kept : ctc_out[KeptBefore(t)] = Path[t]
      /\ Len(ctc_decoded) = Len(ctc_out)
      /\ \A i \in DOMAIN ctc_out :
            /\ ctc_out[i] \in Classes \ {Blank}
            /\ ctc_decoded[i] = IF ModelCharacters[ctc_out[i] + 1] = "§" THEN " "
                                ELSE ModelCharacters[ctc_out[i] + 1]
            /\ ctc_decoded[i] \notin {"§", ModelCharacters[Blank + 1]}

\* the best path a, a, placeholder: one a and a space
C15_Witness ==
    /\ ctc_calls = 1
    /\ Path = <<0, 0, 1>>
    /\ ctc_out = <<0, 1>>
    /\ ctc_decoded = <<"a", " ">>

\* no two neighbours of the sequence are equal
NoRepeats(q) == \A i \in 1..(Len(q) - 1) : q[i] # q[i + 1]

\* C16 as stated: a best path without consecutive repeats and without
\* blanks is decoded to itself, and decoding the path that spells a decoded
\* sequence gives that sequence again, for every sequence.
C16_CollapseIdempotent ==
    /\ (ctc_calls > 0 /\ NoRepeats(Path) /\ \A t \in DOMAIN Path : Path[t] # Blank)
         => ctc_out = Path
    /\ ctc_calls = 2 => ctc_out = ctc_prev

\* C16 amended: a best path without consecutive repeats and without blanks
\* is decoded to itself; decoding the path that spells a decoded sequence
\* gives that sequence again when the sequence has no two equal
\* neighbours, and otherwise a shorter one (a, blank, a decodes to a, a,
\* which decodes to a).
C16_CollapseFixpoint ==
    /\ (ctc_calls > 0 /\ NoRepeats(Path) /\ \A t \in DOMAIN Path : Path[t] # Blank)
         => ctc_out = Path
    /\ ctc_calls = 2 =>
         /\ Path = ctc_prev
         /\ NoRepeats(ctc_prev) => ctc_out = ctc_prev
         /\ ~NoRepeats(ctc_prev) => Len(ctc_out) < Len(ctc_prev)

\* the sequence a, placeholder decoded from the path that spells it
C16_Witness ==
    /\ ctc_calls = 2
    /\ ctc_prev = <<0, 1>>
    /\ ctc_out = <<0, 1>>
    /\ ctc_decoded = <<"a", " ">>

(***************************************************************************)
(* Properties of IIIFDownloader.download (SpecDownloader).                 *)
(***************************************************************************)
M == Len(iiif_canvases)
K == IF 0 < iiif_limit /\ iiif_limit <= M THEN iiif_limit ELSE M
ReqIdx == DOMAIN iiif_requests

\* the files on disk when the loop comes to index i
DiskAt(i) ==
    iiif_disk0 \cup {iiif_requests[j].name :
                       j \in {x \in ReqIdx : /\ iiif_requests[x].idx < i
                                              /\ iiif_requests[x].status = "200"}}

\* C18: the loop runs over the first K images of the manifest in order,
\* K = L for 0 < L <= M and K = M otherwise, and never beyond the list;
\* of the images it has come to it has requested exactly those whose file
\* was not on disk at their turn, each once; a file on disk is never
\* requested again or written again, and a call that returns has come to
\* all K images.
C18_LimitAndSkip ==
    iiif_pc # "idle" =>
      /\ M > 0 => iiif_file_limit = K
      /\ iiif_idx <= K
      /\ iiif_pc = "loop" => iiif_idx < K /\ iiif_idx < M
      /\ iiif_pc = "returned" => iiif_idx = K
      /\ \A j \in ReqIdx :
            /\ iiif_requests[j].idx \in 0..(K - 1)
            /\ iiif_requests[j].idx <= iiif_idx
            /\ iiif_requests[j].name = iiif_canvases[iiif_requests[j].idx + 1]
            /\ iiif_requests[j].name \notin DiskAt(iiif_requests[j].idx)
            /\ \A k \in ReqIdx : j < k => iiif_requests[j].idx < iiif_requests[k].idx
      /\ \A i \in 0..(iiif_idx - 1) :
            iiif_canvases[i + 1] \notin DiskAt(i)
              => \E j \in ReqIdx : iiif_requests[j].idx = i
      /\ iiif_disk = DiskAt(iiif_idx + 1)

\* a manifest of three images and limit 2, the first file on disk: one
\* request, for the second image
C18_Witness ==
    /\ iiif_pc = "returned"
    /\ M = 3
    /\ iiif_limit = 2
    /\ iiif_canvases[1] \in iiif_disk0
    /\ iiif_canvases[2] \notin iiif_disk0
    /\ iiif_canvases[3] \notin iiif_disk
    /\ Len(iiif_requests) = 1
    /\ iiif_requests[1].idx = 1
    /\ iiif_requests[1].status = "200"

\* C19: a fetch that fails, by its status or by an exception, does not end
\* download: the call does not raise, and once it has returned every
\* later image within the limit whose file was not on disk at its turn
\* has been requested and, on status 200, written.
C19_FetchFailureIsolated ==
    \A j \in ReqIdx :
      iiif_requests[j].status # "200" =>
        /\ iiif_pc # "raised"
        /\ iiif_pc = "returned" =>
             \A i \in (iiif_requests[j].idx + 1)..(K - 1) :
               iiif_canvases[i + 1] \notin DiskAt(i) =>
                 \E k \in ReqIdx :
                   /\ iiif_requests[k].idx = i
                   /\ iiif_requests[k].status = "200"
                        => iiif_requests[k].name \in iiif_disk

====
